---- MODULE Spec2Model ----
(***************************************************************************)
(* State-machine model of multi-llm-chat.py: the LLMChatApp session object *)
(* (current provider, current thread, threads, per-provider memories), the *)
(* chat_history.json file, and the read-eval loop of main().               *)
(***************************************************************************)
EXTENDS Integers, Sequences, FiniteSets, TLC

VARIABLES
    pc,               \* position of the process: "init", "prompt", "awaiting", "done", "crashed"
    file,             \* chat_history.json on disk
    current_provider, \* self.current_provider
    current_thread,   \* self.current_thread
    threads,          \* self.threads: dict (insertion ordered) name -> list of messages
    memories,         \* self.memories: provider -> chat_memory.messages
    pending,          \* user_input of the chat turn in flight
    last,             \* history: the operation that produced this state
    before,           \* history: the session state when that operation began
    created,          \* history: thread names created on first reference so far
    saved             \* history: the threads handed to the last save_chat_history

vars == <<pc, file, current_provider, current_thread, threads, memories,
          pending, last, before, created, saved>>

-----------------------------------------------------------------------------
(* Bounds of the model *)

MaxTurns == 3         \* chat turns held by all threads together
MaxNotices == 2       \* hand-off notices held by all memories together

InputLines == <<"a", "/switch", "b", "/thread">>  \* chat lines typed by the user, in this order
Replies == {"x"}                     \* replies of the remote provider
ThreadNames == {"default", "work"}   \* arguments of /thread
UnknownProvider == "mistral"         \* an argument of /switch outside the registry

\* command lines typed without an argument, as tokens (" " is white space)
NoArgumentLines == { <<"/switch">>, <<"/switch", " ">>, <<"/thread">>, <<"/thread", " ">> }

\* the messages of thread default in a chat_history.json left by an earlier
\* session of six turns
PriorContents ==
    <<"q1", "r1", "q2", "r2", "q3", "r3", "q4", "r4", "q5", "r5", "q6", "r6">>

-----------------------------------------------------------------------------
(* Program constants *)

api_providers == {"openai", "anthropic", "gemini"}
DefaultProvider == "openai"
DefaultThread == "default"
SummaryCount == 5

NoFile == [kind |-> "absent", text |-> <<>>]
CorruptFile == [kind |-> "corrupt", text |-> <<>>]

-----------------------------------------------------------------------------
(* Python dict with insertion order, as a sequence of [name, msgs] entries *)

Keys(d) == {d[i].name : i \in 1..Len(d)}

Has(d, k) == k \in Keys(d)

Get(d, k) == d[CHOOSE i \in 1..Len(d) : d[i].name = k].msgs

Put(d, k, v) ==
    IF Has(d, k)
    THEN [i \in 1..Len(d) |-> IF d[i].name = k THEN [name |-> k, msgs |-> v] ELSE d[i]]
    ELSE Append(d, [name |-> k, msgs |-> v])

-----------------------------------------------------------------------------
(* chat_memory of ConversationBufferMemory *)

EmptyMemories == [p \in api_providers |-> <<>>]

add_user_message(mem, content) == Append(mem, [type |-> "human", content |-> content])

add_ai_message(mem, content) == Append(mem, [type |-> "ai", content |-> content])

add_system_message(mem, content) == Append(mem, [type |-> "system", content |-> content])

\* one iteration of the replay loop: route the message by role to every memory
replay_message(mems, message) ==
    IF message.role = "user"
    THEN [p \in DOMAIN mems |-> add_user_message(mems[p], message.content)]
    ELSE IF message.role = "assistant"
         THEN [p \in DOMAIN mems |-> add_ai_message(mems[p], message.content)]
         ELSE mems

RECURSIVE replay_thread(_, _)
replay_thread(mems, msgs) ==
    IF msgs = <<>> THEN mems
    ELSE replay_thread(replay_message(mems, Head(msgs)), Tail(msgs))

-----------------------------------------------------------------------------
(* json.dump / json.load of self.threads.  The text of a JSON object is the *)
(* sequence of its key/value pairs; loading folds the pairs into a dict.    *)

json_dump_message(m) == << <<"role", m.role>>, <<"content", m.content>> >>

json_dump(d) ==
    [i \in 1..Len(d) |->
        <<d[i].name, [j \in 1..Len(d[i].msgs) |-> json_dump_message(d[i].msgs[j])]>>]

json_field(obj, key) ==
    obj[CHOOSE i \in 1..Len(obj) :
            /\ obj[i][1] = key
            /\ \A j \in (i+1)..Len(obj) : obj[j][1] # key][2]

json_load_message(obj) ==
    [role |-> json_field(obj, "role"), content |-> json_field(obj, "content")]

RECURSIVE json_load_pairs(_, _)
json_load_pairs(d, text) ==
    IF text = <<>> THEN d
    ELSE json_load_pairs(
            Put(d, Head(text)[1],
                [j \in 1..Len(Head(text)[2]) |-> json_load_message(Head(text)[2][j])]),
            Tail(text))

json_load(text) == json_load_pairs(<<>>, text)

-----------------------------------------------------------------------------
(* Helpers on lists and strings *)

\* mutant: list[:n], the first n instead of the last n
LastN_first(s, n) == SubSeq(s, 1, IF Len(s) > n THEN n ELSE Len(s))

\* list[-n:]
LastN(s, n) == SubSeq(s, IF Len(s) > n THEN Len(s) - n + 1 ELSE 1, Len(s))

\* sep.join(list)
RECURSIVE join(_, _)
join(sep, list) ==
    IF list = <<>> THEN ""
    ELSE IF Len(list) = 1 THEN list[1]
         ELSE list[1] \o sep \o join(sep, Tail(list))

RECURSIVE TotalLen(_)
TotalLen(d) == IF d = <<>> THEN 0 ELSE Len(Head(d).msgs) + TotalLen(Tail(d))

\* the line the user types next: the lines of InputLines in turn
NextLine(d) == InputLines[((TotalLen(d) \div 2) % Len(InputLines)) + 1]

IsNotice(m) == m.type = "system"

IsHumanOrAI(m) == m.type \in {"human", "ai"}

RECURSIVE SumOver(_, _)
SumOver(mems, ps) ==
    IF ps = {} THEN 0
    ELSE LET p == CHOOSE q \in ps : TRUE
         IN Len(SelectSeq(mems[p], IsNotice)) + SumOver(mems, ps \ {p})

TotalNotices(mems) == SumOver(mems, DOMAIN mems)

-----------------------------------------------------------------------------
(* The pieces of the LLMChatApp methods *)

\* mutant: the dict read from the file is dropped
loaded_threads_ignored(f) == <<>>

\* load_chat_history, lines 32-34: the dict read from the file, {} without a file
loaded_threads(f) == IF f.kind = "json" THEN json_load(f.text) ELSE <<>>

\* load_chat_history, lines 36-43: replay of the current thread into every memory
restored_memories(mems, f, d, t) ==
    IF f.kind = "json" /\ Has(d, t) THEN replay_thread(mems, Get(d, t)) ELSE mems

\* mutant: the thread is not created on first reference
ensure_thread_never(d, t) == d

\* lines 44-45 and 73-74: create the thread on first reference
ensure_thread(d, t) == IF Has(d, t) THEN d ELSE Put(d, t, <<>>)

\* save_chat_history: the whole thread set overwrites the file
save_chat_history(d) == [kind |-> "json", text |-> json_dump(d)]

\* lines 65-67 of adapt_context_for_new_provider
summary_header(old_provider) ==
    "This conversation was previously handled by the " \o old_provider \o " API. "
    \o "Here's a brief summary of the conversation so far: "

\* mutant: the isinstance filter is missing, notices are summarised too
summary_contents_unfiltered(old_memory) ==
    [i \in 1..Len(old_memory) |-> old_memory[i].content]

summary_contents(old_memory) ==
    LET kept == SelectSeq(old_memory, IsHumanOrAI)
    IN [i \in 1..Len(kept) |-> kept[i].content]

summary(old_provider, old_memory) ==
    summary_header(old_provider)
    \o join(" ", LastN(summary_contents(old_memory), SummaryCount))

\* mutant: the notice replaces what the new provider's memory held
adapt_context_replacing(mems, old_provider, new_provider) ==
    [mems EXCEPT ![new_provider] =
        add_system_message(<<>>, summary(old_provider, mems[old_provider]))]

\* mutant: the notice is added to the old provider's memory as well
adapt_context_both(mems, old_provider, new_provider) ==
    [p \in DOMAIN mems |->
        IF p \in {old_provider, new_provider}
        THEN add_system_message(mems[p], summary(old_provider, mems[old_provider]))
        ELSE mems[p]]

adapt_context_for_new_provider(mems, old_provider, new_provider) ==
    [mems EXCEPT ![new_provider] =
        add_system_message(@, summary(old_provider, mems[old_provider]))]

\* mutant: the memories are not cleared
clear_memories_skipped(mems) == mems

\* switch_thread, lines 76-77
clear_memories(mems) == [p \in DOMAIN mems |-> <<>>]

\* mutant: the thread is replayed on top of what the memories hold
reloaded_memories_noclear(mems, msgs) == replay_thread(mems, msgs)

\* switch_thread, lines 75-84: clear, then replay the thread
reloaded_memories(mems, msgs) == replay_thread(clear_memories(mems), msgs)

\* mutant: the thread is rebuilt from the new message alone
append_user_reset(d, t, user_input) ==
    Put(d, t, << [role |-> "user", content |-> user_input] >>)

\* chat, line 108
append_user(d, t, user_input) ==
    Put(d, t, Append(Get(d, t), [role |-> "user", content |-> user_input]))

\* mutant: the reply goes to the default thread, not the current one
append_assistant_default(d, t, response) ==
    Put(d, DefaultThread,
        Append(Get(d, DefaultThread), [role |-> "assistant", content |-> response]))

\* chat, line 118
append_assistant(d, t, response) ==
    Put(d, t, Append(Get(d, t), [role |-> "assistant", content |-> response]))

\* mutant: the turn is saved into every provider's memory
save_context_all(mems, provider, user_input, response) ==
    [p \in DOMAIN mems |-> add_ai_message(add_user_message(mems[p], user_input), response)]

\* chat, lines 110-117: ConversationChain.predict saves the turn into the
\* memory it was given, that of the current provider
save_context(mems, provider, user_input, response) ==
    [mems EXCEPT ![provider] =
        add_ai_message(add_user_message(@, user_input), response)]

\* chat_history.json as an earlier session of six turns in thread default left it
PriorHistoryFile ==
    save_chat_history(
        << [name |-> DefaultThread,
            msgs |-> [i \in 1..Len(PriorContents) |->
                        [role |-> IF i % 2 = 1 THEN "user" ELSE "assistant",
                         content |-> PriorContents[i]]]] >>)

-----------------------------------------------------------------------------
(* main: the dispatch of an input line, lines 133-140.  A line is the        *)
(* sequence of its words and of the white space between them.                *)

\* str.startswith
startswith(line, prefix) ==
    Len(line) >= Len(prefix) /\ SubSeq(line, 1, Len(prefix)) = prefix

IsWord(token) == token # " "

\* str.split()
split(line) == SelectSeq(line, IsWord)

\* mutant: the command is recognised without the space after it
dispatch_bare_prefix(line) ==
    IF line \in { <<"exit">>, <<"quit">> } THEN "exit"
    ELSE IF startswith(line, <<"/switch">>) THEN "switch"
    ELSE IF startswith(line, <<"/thread">>) THEN "thread"
    ELSE "chat"

\* the branch of the if/elif chain a line takes
dispatch(line) ==
    IF line \in { <<"exit">>, <<"quit">> } THEN "exit"
    ELSE IF startswith(line, <<"/switch", " ">>) THEN "switch"
    ELSE IF startswith(line, <<"/thread", " ">>) THEN "thread"
    ELSE "chat"

-----------------------------------------------------------------------------
(* History variables *)

Snapshot ==
    [threads |-> threads, memories |-> memories, file |-> file,
     current_provider |-> current_provider, current_thread |-> current_thread]

NoSave == [valid |-> FALSE, threads |-> <<>>]

-----------------------------------------------------------------------------
(* State machine *)

Init ==
    /\ pc = "init"
    /\ file \in {NoFile, CorruptFile, PriorHistoryFile}
    /\ current_provider = DefaultProvider
    /\ current_thread = DefaultThread
    /\ threads = <<>>
    /\ memories = EmptyMemories
    /\ pending = ""
    /\ last = [op |-> "new", arg |-> ""]
    /\ before = Snapshot
    /\ created = {}
    /\ saved = NoSave

\* __init__, line 29: load_chat_history.  json.load raises on an unparseable
\* file and nothing catches it.
Start ==
    /\ pc = "init"
    /\ last' = [op |-> "load", arg |-> file.kind]
    /\ before' = Snapshot
    /\ IF file.kind = "corrupt"
       THEN /\ pc' = "crashed"
            /\ UNCHANGED <<threads, memories, created>>
       ELSE LET d == loaded_threads(file)
            IN /\ memories' = restored_memories(memories, file, d, current_thread)
               /\ threads' = ensure_thread(d, current_thread)
               /\ created' = IF Has(d, current_thread) THEN created
                             ELSE created \cup {current_thread}
               /\ pc' = "prompt"
    /\ UNCHANGED <<file, current_provider, current_thread, pending, saved>>

\* mutant: a switch to the provider already current is skipped
switch_provider_skip_current(provider) ==
    /\ last' = [op |-> "switch_provider", arg |-> provider]
    /\ before' = Snapshot
    /\ IF provider \in api_providers /\ provider # current_provider
       THEN /\ current_provider' = provider
            /\ memories' = adapt_context_for_new_provider(memories, current_provider, provider)
       ELSE UNCHANGED <<current_provider, memories>>
    /\ UNCHANGED <<pc, file, current_thread, threads, pending, created, saved>>

\* mutant: the provider is taken over before it is looked up
switch_provider_unchecked(provider) ==
    /\ last' = [op |-> "switch_provider", arg |-> provider]
    /\ before' = Snapshot
    /\ current_provider' = provider
    /\ IF provider \in api_providers
       THEN memories' = adapt_context_for_new_provider(memories, current_provider, provider)
       ELSE UNCHANGED memories
    /\ UNCHANGED <<pc, file, current_thread, threads, pending, created, saved>>

\* LLMChatApp.switch_provider
switch_provider(provider) ==
    /\ last' = [op |-> "switch_provider", arg |-> provider]
    /\ before' = Snapshot
    /\ IF provider \in api_providers
       THEN /\ current_provider' = provider
            /\ memories' = adapt_context_for_new_provider(memories, current_provider, provider)
       ELSE UNCHANGED <<current_provider, memories>>
    /\ UNCHANGED <<pc, file, current_thread, threads, pending, created, saved>>

\* mutant: the memories are left as they are on a thread switch
switch_thread_keeps_memories(thread_name) ==
    /\ last' = [op |-> "switch_thread", arg |-> thread_name]
    /\ before' = Snapshot
    /\ current_thread' = thread_name
    /\ threads' = ensure_thread(threads, thread_name)
    /\ created' = IF Has(threads, thread_name) THEN created
                  ELSE created \cup {thread_name}
    /\ UNCHANGED <<pc, file, current_provider, memories, pending, saved>>

\* LLMChatApp.switch_thread
switch_thread(thread_name) ==
    /\ last' = [op |-> "switch_thread", arg |-> thread_name]
    /\ before' = Snapshot
    /\ current_thread' = thread_name
    /\ threads' = ensure_thread(threads, thread_name)
    /\ memories' = reloaded_memories(memories, Get(threads', thread_name))
    /\ created' = IF Has(threads, thread_name) THEN created
                  ELSE created \cup {thread_name}
    /\ UNCHANGED <<pc, file, current_provider, pending, saved>>

\* main, lines 135-136
SwitchProvider ==
    /\ pc = "prompt"
    /\ \E p \in api_providers \cup {UnknownProvider} :
          /\ p \in api_providers => TotalNotices(memories) < MaxNotices
          /\ switch_provider(p)

\* main, lines 137-138
SwitchThread ==
    /\ pc = "prompt"
    /\ \E t \in ThreadNames : switch_thread(t)

\* mutant: the file is written as soon as the user message is appended
ChatSend_saves ==
    /\ pc = "prompt"
    /\ TotalLen(threads) < 2 * MaxTurns
    /\ \E user_input \in {NextLine(threads)} :
          /\ dispatch(<<user_input>>) = "chat"
          /\ pending' = user_input
          /\ threads' = append_user(threads, current_thread, user_input)
          /\ last' = [op |-> "chat_send", arg |-> user_input]
    /\ before' = Snapshot
    /\ pc' = "awaiting"
    /\ file' = save_chat_history(threads')
    /\ saved' = [valid |-> TRUE, threads |-> threads']
    /\ UNCHANGED <<current_provider, current_thread, memories, created>>

\* main, line 140, and chat up to the remote call of line 117
ChatSend ==
    /\ pc = "prompt"
    /\ TotalLen(threads) < 2 * MaxTurns
    /\ \E user_input \in {NextLine(threads)} :
          /\ dispatch(<<user_input>>) = "chat"
          /\ pending' = user_input
          /\ threads' = append_user(threads, current_thread, user_input)
          /\ last' = [op |-> "chat_send", arg |-> user_input]
    /\ before' = Snapshot
    /\ pc' = "awaiting"
    /\ UNCHANGED <<file, current_provider, current_thread, memories, created, saved>>

\* mutant: the file is written before the reply is appended to the thread
ChatReceive_save_first ==
    /\ pc = "awaiting"
    /\ \E response \in Replies :
          /\ memories' = save_context(memories, current_provider, pending, response)
          /\ threads' = append_assistant(threads, current_thread, response)
          /\ last' = [op |-> "chat", arg |-> response]
    /\ file' = save_chat_history(threads)
    /\ saved' = [valid |-> TRUE, threads |-> threads]
    /\ pc' = "prompt"
    /\ UNCHANGED <<current_provider, current_thread, pending, before, created>>

\* chat, lines 117-120: the reply arrives
ChatReceive ==
    /\ pc = "awaiting"
    /\ \E response \in Replies :
          /\ memories' = save_context(memories, current_provider, pending, response)
          /\ threads' = append_assistant(threads, current_thread, response)
          /\ last' = [op |-> "chat", arg |-> response]
    /\ file' = save_chat_history(threads')
    /\ saved' = [valid |-> TRUE, threads |-> threads']
    /\ pc' = "prompt"
    /\ UNCHANGED <<current_provider, current_thread, pending, before, created>>

\* mutant: the failure is swallowed and the loop goes on
ChatProviderError_swallowed ==
    /\ pc = "awaiting"
    /\ pc' = "prompt"
    /\ last' = [op |-> "chat_error", arg |-> pending]
    /\ UNCHANGED <<file, current_provider, current_thread, threads, memories,
                   pending, before, created, saved>>

\* chat, line 117: the remote call raises; main catches neither it nor anything
\* but KeyboardInterrupt and EOFError
ChatProviderError ==
    /\ pc = "awaiting"
    /\ pc' = "crashed"
    /\ last' = [op |-> "chat_error", arg |-> pending]
    /\ UNCHANGED <<file, current_provider, current_thread, threads, memories,
                   pending, before, created, saved>>

\* main, lines 143-144: Ctrl-C while the remote call blocks
ChatKeyboardInterrupt ==
    /\ pc = "awaiting"
    /\ pc' = "done"
    /\ last' = [op |-> "chat_interrupt", arg |-> pending]
    /\ UNCHANGED <<file, current_provider, current_thread, threads, memories,
                   pending, before, created, saved>>

\* main, lines 135-138: user_input.split()[1] on a command line that has no
\* second word raises IndexError, which main does not catch
MissingArgument ==
    /\ pc = "prompt"
    /\ \E line \in NoArgumentLines :
          /\ dispatch(line) \in {"switch", "thread"}
          /\ Len(split(line)) < 2
          /\ last' = [op |-> "index_error", arg |-> join("", line)]
    /\ before' = Snapshot
    /\ pc' = "crashed"
    /\ UNCHANGED <<file, current_provider, current_thread, threads, memories,
                   pending, created, saved>>

\* main, lines 133-134 and 143-146: exit, quit, Ctrl-C or end of input at the prompt
Exit ==
    /\ pc = "prompt"
    /\ pc' = "done"
    /\ last' = [op |-> "exit", arg |-> ""]
    /\ UNCHANGED <<file, current_provider, current_thread, threads, memories,
                   pending, before, created, saved>>

\* the program is run again: __init__, lines 16-28
Restart ==
    /\ pc \in {"done", "crashed"}
    /\ pc' = "init"
    /\ current_provider' = DefaultProvider
    /\ current_thread' = DefaultThread
    /\ threads' = <<>>
    /\ memories' = EmptyMemories
    /\ pending' = ""
    /\ last' = [op |-> "new", arg |-> ""]
    /\ before' = [threads |-> <<>>, memories |-> EmptyMemories, file |-> file,
                  current_provider |-> DefaultProvider, current_thread |-> DefaultThread]
    /\ UNCHANGED <<file, created, saved>>

Next ==
    \/ Start
    \/ SwitchProvider
    \/ SwitchThread
    \/ ChatSend
    \/ ChatReceive
    \/ ChatProviderError
    \/ ChatKeyboardInterrupt
    \/ MissingArgument
    \/ Exit
    \/ Restart

Spec == Init /\ [][Next]_vars

-----------------------------------------------------------------------------
(* Vocabulary of the properties *)

Providers == api_providers

MemoryType(role) == IF role = "user" THEN "human" ELSE "ai"

\* mem holds one entry per message of msgs, in thread order, and nothing else
IsReplayOf(mem, msgs) ==
    /\ Len(mem) = Len(msgs)
    /\ \A i \in 1..Len(msgs) :
          /\ mem[i].type = MemoryType(msgs[i].role)
          /\ mem[i].content = msgs[i].content

\* the contents of ua[lo..hi] separated by single spaces, built from the right
RECURSIVE SpaceJoined(_, _, _)
SpaceJoined(ua, lo, hi) ==
    IF lo > hi THEN ""
    ELSE IF lo = hi THEN ua[hi].content
         ELSE SpaceJoined(ua, lo, hi - 1) \o " " \o ua[hi].content

\* the space-joined content of the last min(5, n) user/assistant entries of mem
LastFiveJoined(mem) ==
    LET ua == SelectSeq(mem, IsHumanOrAI)
        n == Len(ua)
        k == IF n < 5 THEN n ELSE 5
    IN SpaceJoined(ua, n - k + 1, n)

LastEntry(mem) == mem[Len(mem)]

SwitchedThread == pc = "prompt" /\ last.op = "switch_thread"

SwitchedKnownProvider ==
    pc = "prompt" /\ last.op = "switch_provider" /\ last.arg \in Providers

SwitchedUnknownProvider ==
    last.op = "switch_provider" /\ last.arg \notin Providers

ChatCompleted == last.op = "chat"

Loaded == last.op = "load"

-----------------------------------------------------------------------------
(* C1: immediately after switch-thread(T), T is the current thread and every *)
(* provider's Memory is exactly the replay of T's messages in thread order,  *)
(* with no notice and no leftover of the previous thread; when T was not in  *)
(* the thread set before, T is an empty thread and every Memory is empty.    *)
C1_SwitchThreadReplaysExactly ==
    SwitchedThread =>
        /\ current_thread = last.arg
        /\ Has(threads, last.arg)
        /\ \A p \in Providers : IsReplayOf(memories[p], Get(threads, last.arg))
        /\ ~Has(before.threads, last.arg) =>
              /\ Get(threads, last.arg) = <<>>
              /\ \A p \in Providers : memories[p] = <<>>

\* a switch to a non-empty thread from another non-empty thread whose
\* memories held a hand-off notice
C1_Witness ==
    /\ SwitchedThread
    /\ before.current_thread # current_thread
    /\ Len(Get(before.threads, before.current_thread)) >= 2
    /\ Len(Get(threads, current_thread)) >= 2
    /\ TotalNotices(before.memories) >= 1

-----------------------------------------------------------------------------
(* C2 as stated: after switch-provider from A to a known B, the text of the  *)
(* notice appended to B's Memory equals the single-space-joined content of   *)
(* the last min(5, n) user/assistant entries of A's Memory (empty if n = 0). *)
C2_NoticeTextIsJoin ==
    SwitchedKnownProvider =>
        LastEntry(memories[last.arg]).content
            = LastFiveJoined(before.memories[before.current_provider])

(* C2 amended: the text of the notice is the fixed header naming A followed  *)
(* by the single-space-joined content of the last min(5, n) user/assistant   *)
(* entries of A's Memory, in original order, notices skipped; when n = 0 the *)
(* notice is the header alone.                                               *)
C2_NoticeTextIsHeaderThenJoin ==
    SwitchedKnownProvider =>
        LET A == before.current_provider
            notice == LastEntry(memories[last.arg])
        IN /\ notice.type = "system"
           /\ notice.content = summary_header(A) \o LastFiveJoined(before.memories[A])
           /\ SelectSeq(before.memories[A], IsHumanOrAI) = <<>>
                 => notice.content = summary_header(A)

\* a hand-off from a Memory holding a notice and more than five
\* user/assistant entries
C2_Witness ==
    /\ SwitchedKnownProvider
    /\ last.arg # before.current_provider
    /\ Len(SelectSeq(before.memories[before.current_provider], IsHumanOrAI)) > 5
    /\ Len(SelectSeq(before.memories[before.current_provider], IsNotice)) >= 1

-----------------------------------------------------------------------------
(* C3: switch-provider(p) with p outside the provider set changes nothing:   *)
(* current provider, current thread, every thread, every Memory and the      *)
(* persisted store are as before, and the loop is back at its prompt.        *)
C3_UnknownProviderChangesNothing ==
    SwitchedUnknownProvider =>
        /\ pc = "prompt"
        /\ current_provider = before.current_provider
        /\ current_thread = before.current_thread
        /\ threads = before.threads
        /\ memories = before.memories
        /\ file = before.file

\* an unknown provider is named when threads, memories and the file hold data
C3_Witness ==
    /\ SwitchedUnknownProvider
    /\ last.arg = UnknownProvider
    /\ current_provider # DefaultProvider
    /\ TotalLen(threads) >= 2
    /\ TotalNotices(memories) >= 1
    /\ file.kind = "json"

-----------------------------------------------------------------------------
(* C4: a successful chat(input) with reply r extends the current thread by   *)
(* exactly {user, input} then {assistant, r} at its end and leaves every     *)
(* other thread unchanged; from a fresh start without a file, the first turn *)
(* on openai leaves thread default equal to those two messages.              *)
C4_ChatAppendsOneTurn ==
    ChatCompleted =>
        LET turn == << [role |-> "user", content |-> pending],
                       [role |-> "assistant", content |-> last.arg] >>
        IN /\ current_thread = before.current_thread
           /\ Keys(threads) = Keys(before.threads)
           /\ Get(threads, current_thread)
                 = Get(before.threads, current_thread) \o turn
           /\ \A t \in Keys(threads) \ {current_thread} :
                 Get(threads, t) = Get(before.threads, t)
           /\ ( /\ before.file = NoFile
                /\ before.threads = << [name |-> DefaultThread, msgs |-> <<>>] >>
                /\ current_provider = DefaultProvider )
                 => threads = << [name |-> DefaultThread, msgs |-> turn] >>

\* a turn completes in a thread that already had a turn, next to another
\* non-empty thread
C4_Witness ==
    /\ ChatCompleted
    /\ Len(Get(before.threads, current_thread)) >= 2
    /\ \E t \in Keys(threads) \ {current_thread} : Len(Get(threads, t)) >= 2

-----------------------------------------------------------------------------
(* C5: whenever a chat turn has completed and control is back at the prompt, *)
(* the persisted store holds exactly the in-memory thread set, the user      *)
(* message and the reply of the turn just finished included.                 *)
StoreHolds(f, d) ==
    /\ f.kind = "json"
    /\ Len(f.text) = Len(d)
    /\ \A i \in 1..Len(d) :
          /\ f.text[i][1] = d[i].name
          /\ Len(f.text[i][2]) = Len(d[i].msgs)
          /\ \A j \in 1..Len(d[i].msgs) :
                f.text[i][2][j] = << <<"role", d[i].msgs[j].role>>,
                                     <<"content", d[i].msgs[j].content>> >>

C5_TurnPersistedBeforePrompt ==
    (ChatCompleted /\ pc = "prompt") =>
        /\ StoreHolds(file, threads)
        /\ LET msgs == Get(threads, current_thread)
           IN /\ Len(msgs) >= 2
              /\ msgs[Len(msgs) - 1] = [role |-> "user", content |-> pending]
              /\ msgs[Len(msgs)] = [role |-> "assistant", content |-> last.arg]

\* a turn completes when the thread set holds two threads and the file on
\* disk was written by an earlier turn
C5_Witness ==
    /\ ChatCompleted
    /\ pc = "prompt"
    /\ Len(threads) = 2
    /\ before.file.kind = "json"
    /\ before.file # file

-----------------------------------------------------------------------------
(* C6: after a successful chat turn the active provider's Memory is what it  *)
(* was with the user input and the reply appended, its last two entries are  *)
(* the last two messages of the current thread, and the Memory of every      *)
(* other provider is what it was before the turn.                            *)
C6_OnlyActiveMemoryAdvances ==
    ChatCompleted =>
        LET mem == memories[current_provider]
            msgs == Get(threads, current_thread)
        IN /\ current_provider = before.current_provider
           /\ mem = before.memories[current_provider]
                      \o << [type |-> "human", content |-> pending],
                            [type |-> "ai", content |-> last.arg] >>
           /\ IsReplayOf(SubSeq(mem, Len(mem) - 1, Len(mem)),
                         SubSeq(msgs, Len(msgs) - 1, Len(msgs)))
           /\ \A q \in Providers \ {current_provider} :
                 memories[q] = before.memories[q]

\* a turn completes on a provider other than the default one, the memories
\* of the other providers holding an earlier turn
C6_Witness ==
    /\ ChatCompleted
    /\ current_provider # DefaultProvider
    /\ \E q \in Providers \ {current_provider} : Len(memories[q]) >= 2
    /\ Len(memories[current_provider]) >= 4

-----------------------------------------------------------------------------
(* C7 as stated: on load, a missing file and a corrupt file are both treated *)
(* as no history: the session reaches its prompt with only the empty current *)
(* thread and empty Memories, and the program does not crash.                *)
C7_MissingOrCorruptIsNoHistory ==
    (Loaded /\ before.file.kind \in {"absent", "corrupt"}) =>
        /\ pc = "prompt"
        /\ threads = << [name |-> DefaultThread, msgs |-> <<>>] >>
        /\ memories = EmptyMemories

-----------------------------------------------------------------------------
(* C8 as stated: every thread created on first reference during a run (by   *)
(* switch-thread to a new name, or as the default thread at start-up) is in  *)
(* the thread set after the process is restarted and the store reloaded.     *)
C8_CreatedThreadsSurviveRestart ==
    (Loaded /\ pc = "prompt") => created \subseteq Keys(threads)

-----------------------------------------------------------------------------
(* C9: loading what save wrote gives back the mapping that was saved: the    *)
(* same thread names, each with the same messages (role and content) in the  *)
(* same order.                                                               *)
SameMapping(d1, d2) ==
    /\ Keys(d1) = Keys(d2)
    /\ \A k \in Keys(d1) :
          /\ Len(Get(d1, k)) = Len(Get(d2, k))
          /\ \A i \in 1..Len(Get(d1, k)) :
                /\ Get(d1, k)[i].role = Get(d2, k)[i].role
                /\ Get(d1, k)[i].content = Get(d2, k)[i].content

C9_SaveLoadRoundTrip ==
    (Loaded /\ saved.valid) =>
        /\ pc = "prompt"
        /\ SameMapping(threads, saved.threads)

\* a restart loads a file holding two non-empty threads
C9_Witness ==
    /\ Loaded
    /\ saved.valid
    /\ Len(threads) = 2
    /\ \A k \in Keys(threads) : Len(Get(threads, k)) >= 2

-----------------------------------------------------------------------------
(* C10: switch-thread(T) when T is already the current thread leaves every   *)
(* provider's Memory equal to one replay of T (never a doubled copy), and    *)
(* leaves T's messages and every other thread unchanged.                     *)
C10_SwitchToCurrentThreadIdempotent ==
    (SwitchedThread /\ last.arg = before.current_thread) =>
        /\ current_thread = before.current_thread
        /\ threads = before.threads
        /\ \A p \in Providers :
              /\ IsReplayOf(memories[p], Get(before.threads, last.arg))
              /\ Len(memories[p]) = Len(Get(threads, current_thread))

\* switch-thread(T) on the current, non-empty thread T, the memories already
\* holding one replay of T (as after a first switch-thread(T))
C10_Witness ==
    /\ SwitchedThread
    /\ last.arg = before.current_thread
    /\ Len(Get(threads, current_thread)) >= 2
    /\ \A p \in Providers : before.memories[p] = memories[p]

-----------------------------------------------------------------------------
(* C11: from the end of initialisation onward (load with or without a file, *)
(* then any sequence of switch-thread, switch-provider and chat, up to the   *)
(* end of the session) the thread set has an entry for the current thread.   *)
Initialised ==
    \/ pc \in {"prompt", "awaiting", "done"}
    \/ pc = "crashed" /\ last.op # "load"

C11_CurrentThreadExists ==
    Initialised => Has(threads, current_thread)

\* the current thread is one that switch-thread created, in a session that
\* started from a persisted file
C11_Witness ==
    /\ pc = "prompt"
    /\ last.op = "switch_thread"
    /\ ~Has(before.threads, current_thread)
    /\ before.file.kind = "json"

-----------------------------------------------------------------------------
(* C12: switch-provider(p) with p known makes p the current provider and     *)
(* appends exactly one entry, a system notice, at the end of p's Memory; the *)
(* Memory of every other provider (the old one too), the current thread      *)
(* name, every thread and the persisted store are unchanged.                 *)
C12_KnownProviderSwitchFrame ==
    SwitchedKnownProvider =>
        LET p == last.arg
        IN /\ current_provider = p
           /\ Len(memories[p]) = Len(before.memories[p]) + 1
           /\ SubSeq(memories[p], 1, Len(before.memories[p])) = before.memories[p]
           /\ LastEntry(memories[p]).type = "system"
           /\ \A q \in Providers \ {p} : memories[q] = before.memories[q]
           /\ current_thread = before.current_thread
           /\ threads = before.threads
           /\ file = before.file

\* a switch to another provider when both memories, the threads and the file
\* hold data
C12_Witness ==
    /\ SwitchedKnownProvider
    /\ last.arg # before.current_provider
    /\ before.memories[before.current_provider] # <<>>
    /\ before.memories[last.arg] # <<>>
    /\ TotalLen(threads) >= 2
    /\ file.kind = "json"

-----------------------------------------------------------------------------
(* C13: when the old provider's Memory holds n >= 5 user/assistant messages  *)
(* the notice contains the contents of exactly the last five of them, in     *)
(* original order, and of no other run of them.                              *)
C13_NoticeHoldsExactlyLastFive ==
    SwitchedKnownProvider =>
        LET A == before.current_provider
            ua == SelectSeq(before.memories[A], IsHumanOrAI)
            n == Len(ua)
            text == LastEntry(memories[last.arg]).content
        IN n >= 5 =>
              /\ text = summary_header(A)
                          \o ua[n - 4].content \o " " \o ua[n - 3].content \o " "
                          \o ua[n - 2].content \o " " \o ua[n - 1].content \o " "
                          \o ua[n].content
              /\ \A lo \in 1..n : \A hi \in lo..n :
                    <<lo, hi>> # <<n - 4, n>>
                       => text # summary_header(A) \o SpaceJoined(ua, lo, hi)

\* thread default with six earlier turns (12 messages) is loaded at start-up
\* and the first command is /switch anthropic
C13_Witness ==
    /\ SwitchedKnownProvider
    /\ before.file = PriorHistoryFile
    /\ before.current_provider = DefaultProvider
    /\ last.arg = "anthropic"
    /\ Len(before.memories[DefaultProvider]) = 12
    /\ TotalNotices(before.memories) = 0

-----------------------------------------------------------------------------
(* C14: within a run no step removes a thread, removes, reorders or changes  *)
(* a message of a thread; a step changes a thread only by appending at its   *)
(* end, and only the current thread.                                         *)
IsPrefix(s1, s2) == Len(s1) <= Len(s2) /\ SubSeq(s2, 1, Len(s1)) = s1

WithinRun == pc \in {"prompt", "awaiting"}

C14_ThreadsAppendOnly ==
    [][ WithinRun =>
          \A t \in Keys(threads) :
              /\ Has(threads', t)
              /\ IsPrefix(Get(threads, t), Get(threads', t))
              /\ Get(threads', t) # Get(threads, t)
                    => t = current_thread /\ current_thread' = current_thread
      ]_vars

\* a message is appended to a thread that already holds a turn, next to
\* another thread that holds one
C14_Witness ==
    /\ pc = "awaiting"
    /\ last.op = "chat_send"
    /\ Len(Get(threads, current_thread)) >= 3
    /\ \E t \in Keys(threads) \ {current_thread} : Len(Get(threads, t)) >= 2

-----------------------------------------------------------------------------
(* C15 as stated: a /switch or /thread line with no argument always faults   *)
(* and ends the session; it is never taken as a chat message (nor as a       *)
(* provider or thread switch).                                               *)
BareCommands == {"/switch", "/thread"}

C15_NoArgumentCommandNeverChats ==
    /\ last.op \in {"chat_send", "chat"} => pending \notin BareCommands
    /\ last.op \in {"switch_provider", "switch_thread"} => last.arg \notin BareCommands

(* C15 amended: a /switch or /thread line in which only white space follows  *)
(* the command faults when the argument is accessed and ends the session     *)
(* with nothing changed; the bare word /switch or /thread, with nothing      *)
(* after it, does not fault and is sent as a chat message.                   *)
C15_BlankArgumentFaultsBareWordChats ==
    /\ last.op = "index_error" =>
          /\ last.arg \in {"/switch ", "/thread "}
          /\ pc = "crashed"
          /\ threads = before.threads
          /\ memories = before.memories
          /\ current_provider = before.current_provider
          /\ current_thread = before.current_thread
          /\ file = before.file
    /\ (last.op = "chat_send" /\ pending \in BareCommands) =>
          /\ pc = "awaiting"
          /\ Get(threads, current_thread)
                = Append(Get(before.threads, current_thread),
                         [role |-> "user", content |-> pending])

\* "/thread " is typed at the prompt of a session holding data
C15_Witness ==
    /\ last.op = "index_error"
    /\ last.arg = "/thread "
    /\ TotalLen(threads) >= 2
    /\ TotalNotices(memories) >= 1

-----------------------------------------------------------------------------
(* C16: a failure of the remote provider during chat ends the session: the   *)
(* turn gets no assistant message, nothing is written to the memories or the *)
(* store, and no retry and no further command of the loop can happen.        *)
C16_ProviderFailureEndsSession ==
    last.op = "chat_error" =>
        /\ pc = "crashed"
        /\ Get(threads, current_thread)
              = Append(Get(before.threads, current_thread),
                       [role |-> "user", content |-> pending])
        /\ memories = before.memories
        /\ file = before.file
        /\ ~ENABLED ChatReceive
        /\ ~ENABLED ChatSend
        /\ ~ENABLED SwitchProvider
        /\ ~ENABLED SwitchThread
        /\ ~ENABLED MissingArgument
        /\ ~ENABLED Exit

\* the provider fails in the second turn of a thread, a file being on disk
C16_Witness ==
    /\ last.op = "chat_error"
    /\ Len(Get(threads, current_thread)) = 3
    /\ file.kind = "json"
    /\ current_provider # DefaultProvider

-----------------------------------------------------------------------------
(* C17: chat and switch-provider never remove or alter an entry of any       *)
(* Memory: what a Memory held before the operation is still there, in place  *)
(* and in order; a switch-provider to p adds one notice to p's Memory and    *)
(* chat adds none, so notices accumulate until switch-thread (or a restart)  *)
(* empties the Memory of notices.                                            *)
Notices(mem) == SelectSeq(mem, IsNotice)

C17_NoticesStayUntilThreadSwitch ==
    /\ last.op \in {"chat_send", "chat", "chat_error", "chat_interrupt", "switch_provider"} =>
          \A p \in Providers :
              /\ IsPrefix(before.memories[p], memories[p])
              /\ IsPrefix(Notices(before.memories[p]), Notices(memories[p]))
              /\ Len(Notices(memories[p]))
                    = Len(Notices(before.memories[p]))
                        + (IF last.op = "switch_provider" /\ last.arg = p THEN 1 ELSE 0)
    /\ last.op \in {"switch_thread", "load"} =>
          \A p \in Providers : Notices(memories[p]) = <<>>

\* a second notice is added to a Memory that holds a notice followed by a turn
C17_Witness ==
    /\ SwitchedKnownProvider
    /\ Len(Notices(memories[last.arg])) = 2
    /\ Len(memories[last.arg]) >= 4
    /\ memories[last.arg][1].type = "system"
    /\ memories[last.arg][2].type = "human"

-----------------------------------------------------------------------------
(* C18: in every state of a session, for every provider, the user/assistant  *)
(* entries of its Memory, in order, are a subsequence of the messages of the *)
(* current thread.                                                           *)
RECURSIVE IsSubsequence(_, _)
IsSubsequence(entries, msgs) ==
    IF entries = <<>> THEN TRUE
    ELSE IF msgs = <<>> THEN FALSE
    ELSE IF /\ Head(entries).type = MemoryType(Head(msgs).role)
            /\ Head(entries).content = Head(msgs).content
         THEN IsSubsequence(Tail(entries), Tail(msgs))
         ELSE IsSubsequence(entries, Tail(msgs))

C18_MemoryIsSubsequenceOfThread ==
    \A p \in Providers :
        IsSubsequence(SelectSeq(memories[p], IsHumanOrAI),
                      IF Has(threads, current_thread)
                      THEN Get(threads, current_thread) ELSE <<>>)

\* a Memory that lags: it holds a later turn of the thread and not the first
C18_Witness ==
    /\ pc = "prompt"
    /\ \E p \in Providers :
          LET ua == SelectSeq(memories[p], IsHumanOrAI)
              msgs == Get(threads, current_thread)
          IN /\ ua # <<>>
             /\ Len(ua) < Len(msgs)
             /\ ua[1].content # msgs[1].content

-----------------------------------------------------------------------------
(* C19: with the file absent or well-formed at start-up, every thread of the *)
(* persisted store holds complete turns only, in every state, also after a   *)
(* provider failure or an interrupt in the middle of a turn: an even number  *)
(* of messages, alternating user, assistant, starting with user.             *)
CompleteTurns(obj) ==
    /\ Len(obj) % 2 = 0
    /\ \A j \in 1..Len(obj) :
          json_field(obj[j], "role") = (IF j % 2 = 1 THEN "user" ELSE "assistant")

C19_StoreHoldsCompleteTurnsOnly ==
    file.kind = "json" =>
        \A i \in 1..Len(file.text) : CompleteTurns(file.text[i][2])

\* the provider failed in the middle of a turn: the thread in memory ends
\* with a user message that has no reply, the store was written before
C19_Witness ==
    /\ pc = "crashed"
    /\ last.op = "chat_error"
    /\ file.kind = "json"
    /\ Len(Get(threads, current_thread)) % 2 = 1
    /\ TotalLen(threads) >= 3

-----------------------------------------------------------------------------
(* C20: switch-provider(p) with p already the current provider is not a      *)
(* no-op: p's Memory gains one notice, built from p's own last (at most 5)   *)
(* user/assistant messages, each time the command is given.                  *)
C20_SwitchToCurrentProviderAddsNotice ==
    (SwitchedKnownProvider /\ last.arg = before.current_provider) =>
        LET p == last.arg
        IN /\ current_provider = p
           /\ memories[p]
                 = Append(before.memories[p],
                          [type |-> "system",
                           content |-> summary_header(p)
                                         \o LastFiveJoined(before.memories[p])])
           /\ memories # before.memories

\* the command is given a second time in a row, the Memory holding turns
C20_Witness ==
    /\ SwitchedKnownProvider
    /\ last.arg = before.current_provider
    /\ before.memories[last.arg] # <<>>
    /\ LastEntry(before.memories[last.arg]).type = "system"
    /\ Len(Notices(memories[last.arg])) = 2
    /\ Len(SelectSeq(memories[last.arg], IsHumanOrAI)) >= 2

====
